---- MODULE Spec2Model ----
(***************************************************************************)
(* Model of the news agent of src/main.py: fetch -> summarize -> dedup ->  *)
(* persist -> notify, run once or on a 30-minute interval.                 *)
(*                                                                         *)
(* Text is modelled as a sequence of one-character strings, so that        *)
(* strip(), lower() and the substring test are computed, not assumed.      *)
(***************************************************************************)
EXTENDS Integers, Sequences, FiniteSets, TLC

VARIABLES
    pc,          \* position of the process (see the actions)
    mode,        \* "once" | "interval": the --once flag (line 140)
    runs,        \* number of agent_loop invocations started so far
    fetched,     \* number of headlines the sites have served so far
    configFile,  \* config.json: NoFile or File(list of sites)
    disk,        \* sent_cache.json: NoFile, Truncated or File(cache)
    exitStatus,  \* NoExit while the process runs, then Exit(status)
    config,      \* agent_loop local: the loaded list of sites
    site,        \* agent_loop: index of the site of the current iteration
    headlines,   \* agent_loop local
    summaries,   \* agent_loop local
    new_items,   \* agent_loop local
    cache,       \* agent_loop local: the working cache
    all_updates, \* agent_loop local: the batch
    updates,     \* send_whatsapp: its parameter
    attempt,     \* send_whatsapp: loop variable of range(3)
    log,         \* entries appended to agent.log by the current run
    trace,       \* history: the operations of the current run, in order
    calls,       \* history: the filter_new calls of the current run
    twin,        \* a second agent_loop frame, run side by side with the first
                 \* on the same inputs where two runs are compared
    hist         \* history across runs: see NoHist

vars == <<pc, mode, runs, fetched, configFile, disk, exitStatus, config, site,
          headlines, summaries, new_items, cache, all_updates, updates, attempt,
          log, trace, calls, twin, hist>>

(***************************************************************************)
(* Bounds of the model.                                                    *)
(***************************************************************************)
MaxSites == 2       \* sites in config.json
MaxFetched == 2     \* headlines served by the sites over the process's life
MaxRuns == 2        \* agent_loop invocations
MaxInitCache == 0   \* entries of sent_cache.json at process start
MaxItems == 3       \* a function on its own: length of the list it is given
MaxCache == 2       \* a function on its own: length of the cache passed in
MaxCalls == 2       \* filter_new on its own: successive calls

MaxAttempts == 3    \* range(3)

\* A file: absent, holding a JSON value, or cut short by a failed write.
NoFile == [state |-> "absent", content |-> <<>>]
Truncated == [state |-> "truncated", content |-> <<>>]
File(v) == [state |-> "json", content |-> v]

\* The exit status: none while the process runs.
NoExit == <<>>
Exit(code) == <<code>>

BoundedSeq(S, n) == UNION {[1..k -> S] : k \in 0..n}
Range(seq) == {seq[k] : k \in 1..Len(seq)}

(***************************************************************************)
(* Text.                                                                   *)
(***************************************************************************)
Str_A == <<"A">>
Str_B == <<"B">>
Str_ignore == <<"i", "g", "n", "o", "r", "e">>

\* What the text-generation service may answer for a headline.
Responses ==
    { Str_A,
      <<" ", "A", " ">>,
      Str_B,
      <<"I", "g", "n", "o", "r", "e", " ", "A">> }

\* The summaries that can reach the dedup cache.
Summaries == {Str_A, Str_B}

IsSpace(c) == c = " "

\* str.lower() on one character
LowerChar(c) ==
    CASE c = "A" -> "a" [] c = "B" -> "b" [] c = "E" -> "e" [] c = "G" -> "g"
      [] c = "I" -> "i" [] c = "N" -> "n" [] c = "O" -> "o" [] c = "R" -> "r"
      [] OTHER -> c

\* a comparison that leaves the case of the summary as it is
lower_as_is(s) == s

lower(s) == [k \in 1..Len(s) |-> LowerChar(s[k])]

RECURSIVE lstrip(_)
lstrip(s) == IF s # <<>> /\ IsSpace(Head(s)) THEN lstrip(Tail(s)) ELSE s

RECURSIVE rstrip(_)
rstrip(s) ==
    IF s # <<>> /\ IsSpace(s[Len(s)]) THEN rstrip(SubSeq(s, 1, Len(s) - 1)) ELSE s

strip(s) == rstrip(lstrip(s))

\* Python's `sub in s` on strings
Contains(s, sub) ==
    \E k \in 1..(Len(s) - Len(sub) + 1) : SubSeq(s, k, k + Len(sub) - 1) = sub

(***************************************************************************)
(* filter_new(items, cache): lines 77-84.  ts is str(datetime.now()).      *)
(***************************************************************************)
CacheHeadlines(c) == {c[k].headline : k \in 1..Len(c)}

RECURSIVE FilterLoop(_, _, _, _, _)
FilterLoop(items, k, new, c, ts) ==
    IF k > Len(items) THEN [new_items |-> new, cache |-> c]
    ELSE IF items[k] \notin CacheHeadlines(c)
         THEN FilterLoop(items, k + 1, Append(new, items[k]),
                         Append(c, [headline |-> items[k], timestamp |-> ts]), ts)
         ELSE FilterLoop(items, k + 1, new, c, ts)

\* Variants of filter_new with one slip each, used to show that the
\* properties below depend on the code.
\* (a) the caller's cache is handed back as it came
filter_new_cache_kept(items, c, ts) ==
    [new_items |-> FilterLoop(items, 1, <<>>, c, ts).new_items, cache |-> c]

\* (b) new_items.insert(0, item)
RECURSIVE FilterLoopInsertFront(_, _, _, _, _)
FilterLoopInsertFront(items, k, new, c, ts) ==
    IF k > Len(items) THEN [new_items |-> new, cache |-> c]
    ELSE IF items[k] \notin CacheHeadlines(c)
         THEN FilterLoopInsertFront(items, k + 1, <<items[k]>> \o new,
                         Append(c, [headline |-> items[k], timestamp |-> ts]), ts)
         ELSE FilterLoopInsertFront(items, k + 1, new, c, ts)

filter_new_insert_front(items, c, ts) == FilterLoopInsertFront(items, 1, <<>>, c, ts)

\* (c) cache.append outside the `if`
RECURSIVE FilterLoopAppendAll(_, _, _, _, _)
FilterLoopAppendAll(items, k, new, c, ts) ==
    IF k > Len(items) THEN [new_items |-> new, cache |-> c]
    ELSE FilterLoopAppendAll(items, k + 1,
             IF items[k] \notin CacheHeadlines(c) THEN Append(new, items[k]) ELSE new,
             Append(c, [headline |-> items[k], timestamp |-> ts]), ts)

filter_new_append_all(items, c, ts) == FilterLoopAppendAll(items, 1, <<>>, c, ts)

\* (d) the candidate is compared with the last cache entry only
RECURSIVE FilterLoopLastOnly(_, _, _, _, _)
FilterLoopLastOnly(items, k, new, c, ts) ==
    IF k > Len(items) THEN [new_items |-> new, cache |-> c]
    ELSE IF c = <<>> \/ items[k] # c[Len(c)].headline
         THEN FilterLoopLastOnly(items, k + 1, Append(new, items[k]),
                         Append(c, [headline |-> items[k], timestamp |-> ts]), ts)
         ELSE FilterLoopLastOnly(items, k + 1, new, c, ts)

filter_new_last_only(items, c, ts) == FilterLoopLastOnly(items, 1, <<>>, c, ts)

filter_new(items, c, ts) == FilterLoop(items, 1, <<>>, c, ts)

\* One recorded call of filter_new.
CallRecord(items, c, r) ==
    [items |-> items, cache_in |-> c, new_items |-> r.new_items, cache_out |-> r.cache]

(***************************************************************************)
(* analyze_with_ai(headlines): lines 58-75.  out[k] is what the service    *)
(* does for the k-th headline: a response text, or "error" (an exception). *)
(***************************************************************************)
Raised == [ok |-> FALSE, text |-> <<>>]
Answer(text) == [ok |-> TRUE, text |-> text]
Outcomes == {Raised} \cup {Answer(t) : t \in Responses}

RECURSIVE AnalyzeLoop(_, _, _, _, _)
AnalyzeLoop(hls, out, k, meaningful, errors) ==
    IF k > Len(hls) THEN [meaningful |-> meaningful, errors |-> errors]
    ELSE IF ~out[k].ok
         THEN AnalyzeLoop(hls, out, k + 1, meaningful, Append(errors, "AI error"))
         ELSE LET summary == strip(out[k].text)
              IN  IF ~Contains(lower(summary), Str_ignore)
                  THEN AnalyzeLoop(hls, out, k + 1, Append(meaningful, summary), errors)
                  ELSE AnalyzeLoop(hls, out, k + 1, meaningful, errors)

analyze_with_ai(hls, out) == AnalyzeLoop(hls, out, 1, <<>>, <<>>)

(***************************************************************************)
(* fetch_site(url, selector): lines 47-56.  page is the list of texts the  *)
(* selector matches when the request succeeds.                             *)
(***************************************************************************)
fetch_site(ok, page) == IF ok THEN page ELSE <<>>

\* 2 * attempt for 2 ** attempt
Pow2_times(n) == 2 * n

RECURSIVE Pow2(_)
Pow2(n) == IF n = 0 THEN 1 ELSE 2 * Pow2(n - 1)

(***************************************************************************)
(* The configuration and the initial state.                                *)
(***************************************************************************)
Site(k) == [url |-> k, selector |-> "h2"]
ConfigOf(n) == [k \in 1..n |-> Site(k)]

InitEntries == [headline : Summaries, timestamp : {0}]

Ev(op, s, ok, n) == [op |-> op, site |-> s, ok |-> ok, n |-> n]

\* The second frame, where none is run.
NoTwin == [a |-> 0, headlines |-> <<>>, summaries |-> <<>>, new_items |-> <<>>,
           cache |-> <<>>, all_updates |-> <<>>, calls |-> <<>>]

\* What the model remembers of the runs, beyond the program's own state:
\*   disk0             sent_cache.json as it was when the current run started
\*   save, batch       whether the current run reached save_cache ("none",
\*                     "saved", "failed") and the batch it had built then
\*   earlier           the summaries in the batches of the earlier runs that
\*                     reached save_cache
\*   earlier_saved     of these, those of runs whose save_cache succeeded
\*   undelivered       the batch of the current run once all its send
\*                     attempts have failed
\*   prev_undelivered  the same of the run before the current one
\*   answers           what the summarizing service did for each headline of
\*                     the list analyze_with_ai was given (where an analysis
\*                     of that function on its own records it)
NoHist ==
    [disk0 |-> NoFile, save |-> "none", batch |-> <<>>, earlier |-> {},
     earlier_saved |-> {}, undelivered |-> <<>>, prev_undelivered |-> <<>>,
     answers |-> <<>>]

\* hist when a new run starts
NextRunHist ==
    [disk0 |-> disk, save |-> "none", batch |-> <<>>,
     earlier |-> hist.earlier \cup
                    (IF hist.save # "none" THEN Range(hist.batch) ELSE {}),
     earlier_saved |-> hist.earlier_saved \cup
                    (IF hist.save = "saved" THEN Range(hist.batch) ELSE {}),
     undelivered |-> <<>>, prev_undelivered |-> hist.undelivered,
     answers |-> <<>>]

\* The locals of a fresh agent_loop frame.
FreshLocals ==
    /\ config = <<>>
    /\ site = 0
    /\ headlines = <<>>
    /\ summaries = <<>>
    /\ new_items = <<>>
    /\ cache = <<>>
    /\ all_updates = <<>>
    /\ updates = <<>>
    /\ attempt = 0

Init ==
    /\ pc = "main"
    /\ mode \in {"once", "interval"}
    /\ runs = 0
    /\ fetched = 0
    /\ configFile \in {NoFile} \cup {File(ConfigOf(n)) : n \in 0..MaxSites}
    /\ disk \in {NoFile} \cup {File(c) : c \in BoundedSeq(InitEntries, MaxInitCache)}
    /\ exitStatus = NoExit
    /\ FreshLocals
    /\ log = <<>>
    /\ trace = <<>>
    /\ calls = <<>>
    /\ twin = NoTwin
    /\ hist = [NoHist EXCEPT !.disk0 = disk]

(***************************************************************************)
(* __main__: lines 134-146.                                                *)
(***************************************************************************)
Main ==
    /\ pc = "main"
    /\ pc' = IF mode = "once" THEN "agent_loop" ELSE "scheduled"
    /\ log' = IF mode = "once" THEN log
              ELSE Append(log, "Agent scheduled every 30 minutes.")
    /\ UNCHANGED <<twin, hist, mode, runs, fetched, configFile, disk, exitStatus, config, site,
                   headlines, summaries, new_items, cache, all_updates, updates,
                   attempt, trace, calls>>

\* The interval job fires (line 144).
Tick ==
    /\ pc = "scheduled"
    /\ exitStatus = NoExit
    /\ runs < MaxRuns
    /\ pc' = "agent_loop"
    /\ UNCHANGED <<twin, hist, mode, runs, fetched, configFile, disk, exitStatus, config, site,
                   headlines, summaries, new_items, cache, all_updates, updates,
                   attempt, log, trace, calls>>

(***************************************************************************)
(* agent_loop: lines 108-122.                                              *)
(***************************************************************************)
\* line 109, on a fresh frame
AgentLoopStart ==
    /\ pc = "agent_loop"
    /\ runs < MaxRuns
    /\ runs' = runs + 1
    /\ log' = <<"Agent loop started">>
    /\ trace' = <<>>
    /\ calls' = <<>>
    /\ config' = <<>>
    /\ site' = 0
    /\ headlines' = <<>>
    /\ summaries' = <<>>
    /\ new_items' = <<>>
    /\ cache' = <<>>
    /\ all_updates' = <<>>
    /\ updates' = <<>>
    /\ attempt' = 0
    /\ pc' = "load_config"
    /\ hist' = NextRunHist
    /\ UNCHANGED <<twin, mode, fetched, configFile, disk, exitStatus>>

\* LoadConfig with a load_config that answers [] when config.json cannot be
\* read, so that the run goes on
LoadConfig_returns_empty ==
    /\ pc = "load_config"
    /\ config' = IF configFile = NoFile THEN <<>> ELSE configFile.content
    /\ trace' = IF configFile = NoFile THEN trace
                ELSE Append(trace, Ev("load_config", 0, TRUE,
                                      Len(configFile.content)))
    /\ pc' = "load_cache"
    /\ UNCHANGED <<twin, hist, mode, runs, fetched, configFile, disk, exitStatus, site,
                   headlines, summaries, new_items, cache, all_updates, updates,
                   attempt, log, calls>>

\* line 110: config = load_config()
LoadConfig ==
    /\ pc = "load_config"
    /\ IF configFile = NoFile
       THEN /\ pc' = "crashed"
            /\ UNCHANGED <<config, trace>>
       ELSE /\ config' = configFile.content
            /\ trace' = Append(trace, Ev("load_config", 0, TRUE,
                                         Len(configFile.content)))
            /\ pc' = "load_cache"
    /\ UNCHANGED <<twin, hist, mode, runs, fetched, configFile, disk, exitStatus, site,
                   headlines, summaries, new_items, cache, all_updates, updates,
                   attempt, log, calls>>

\* LoadCache with a load_cache that reads the file and answers []
LoadCache_ignores_file ==
    /\ pc = "load_cache"
    /\ \E readable \in BOOLEAN :
         IF disk # NoFile /\ (disk = Truncated \/ ~readable)
         THEN /\ pc' = "crashed"
              /\ trace' = Append(trace, Ev("load_cache", 0, FALSE, 0))
              /\ UNCHANGED <<cache, all_updates, site>>
         ELSE /\ cache' = <<>>
              /\ all_updates' = <<>>
              /\ trace' = Append(trace, Ev("load_cache", 0, TRUE, 0))
              /\ site' = 1
              /\ pc' = IF config = <<>> THEN "save" ELSE "fetch"
    /\ UNCHANGED <<twin, hist, mode, runs, fetched, configFile, disk, exitStatus, config,
                   headlines, summaries, new_items, updates, attempt, log, calls>>

\* lines 111-112: cache = load_cache(); all_updates = []; then the loop header
LoadCache ==
    /\ pc = "load_cache"
    /\ \E readable \in BOOLEAN :
         IF disk = NoFile
         THEN /\ cache' = <<>>
              /\ all_updates' = <<>>
              /\ trace' = Append(trace, Ev("load_cache", 0, TRUE, 0))
              /\ site' = 1
              /\ pc' = IF config = <<>> THEN "save" ELSE "fetch"
         ELSE IF disk = Truncated \/ ~readable
         THEN /\ pc' = "crashed"
              /\ trace' = Append(trace, Ev("load_cache", 0, FALSE, 0))
              /\ UNCHANGED <<cache, all_updates, site>>
         ELSE /\ cache' = disk.content
              /\ all_updates' = <<>>
              /\ trace' = Append(trace, Ev("load_cache", 0, TRUE, Len(disk.content)))
              /\ site' = 1
              /\ pc' = IF config = <<>> THEN "save" ELSE "fetch"
    /\ UNCHANGED <<twin, hist, mode, runs, fetched, configFile, disk, exitStatus, config,
                   headlines, summaries, new_items, updates, attempt, log, calls>>

\* FetchSite with a fetch_site that lets the request's exception out
FetchSite_raises ==
    /\ pc = "fetch"
    /\ \E ok \in BOOLEAN, page \in BoundedSeq({"h"}, MaxFetched - fetched) :
         /\ headlines' = fetch_site(ok, page)
         /\ fetched' = fetched + Len(headlines')
         /\ log' = IF ok THEN log ELSE Append(log, "Error fetching")
         /\ trace' = Append(trace, Ev("fetch", site, ok, Len(headlines')))
         /\ pc' = IF ok THEN "analyze" ELSE "crashed"
    /\ UNCHANGED <<twin, hist, mode, runs, configFile, disk, exitStatus, config, site,
                   summaries, new_items, cache, all_updates, updates, attempt, calls>>

\* lines 115-116: headlines = fetch_site(url, selector)
FetchSite ==
    /\ pc = "fetch"
    /\ \E ok \in BOOLEAN, page \in BoundedSeq({"h"}, MaxFetched - fetched) :
         /\ headlines' = fetch_site(ok, page)
         /\ fetched' = fetched + Len(headlines')
         /\ log' = IF ok THEN log ELSE Append(log, "Error fetching")
         /\ trace' = Append(trace, Ev("fetch", site, ok, Len(headlines')))
    /\ pc' = "analyze"
    /\ UNCHANGED <<twin, hist, mode, runs, configFile, disk, exitStatus, config, site,
                   summaries, new_items, cache, all_updates, updates, attempt, calls>>

\* line 117: summaries = analyze_with_ai(headlines)
AnalyzeWithAI ==
    /\ pc = "analyze"
    /\ \E out \in [1..Len(headlines) -> Outcomes] :
         LET r == analyze_with_ai(headlines, out)
         IN  /\ summaries' = r.meaningful
             /\ log' = log \o r.errors
             /\ trace' = Append(trace, Ev("analyze", site, r.errors = <<>>,
                                          Len(r.meaningful)))
    /\ pc' = "filter"
    /\ UNCHANGED <<twin, hist, mode, runs, fetched, configFile, disk, exitStatus, config, site,
                   headlines, new_items, cache, all_updates, updates, attempt, calls>>

\* FilterNew in an agent_loop that goes from the loop straight to
\* send_whatsapp, without save_cache
FilterNew_no_save ==
    /\ pc = "filter"
    /\ LET r == filter_new(summaries, cache, runs)
       IN  /\ new_items' = r.new_items
           /\ cache' = r.cache
           /\ all_updates' = all_updates \o r.new_items
           /\ calls' = Append(calls, CallRecord(summaries, cache, r))
           /\ trace' = Append(trace, Ev("filter", site, TRUE, Len(r.new_items)))
    /\ IF site < Len(config)
       THEN site' = site + 1 /\ pc' = "fetch"
       ELSE site' = site /\ pc' = "notify"
    /\ UNCHANGED <<twin, hist, mode, runs, fetched, configFile, disk, exitStatus, config,
                   headlines, summaries, updates, attempt, log>>

\* FilterNew in an agent_loop that rewrites sent_cache.json after every site
FilterNew_writes_through ==
    /\ pc = "filter"
    /\ LET r == filter_new(summaries, cache, runs)
       IN  /\ new_items' = r.new_items
           /\ cache' = r.cache
           /\ disk' = File(r.cache)
           /\ all_updates' = all_updates \o r.new_items
           /\ calls' = Append(calls, CallRecord(summaries, cache, r))
           /\ trace' = Append(trace, Ev("filter", site, TRUE, Len(r.new_items)))
    /\ IF site < Len(config)
       THEN site' = site + 1 /\ pc' = "fetch"
       ELSE site' = site /\ pc' = "save"
    /\ UNCHANGED <<twin, hist, mode, runs, fetched, configFile, exitStatus, config,
                   headlines, summaries, updates, attempt, log>>

\* FilterNew in an agent_loop that hands filter_new a copy of the cache and
\* keeps its own list as loaded
FilterNew_on_copy ==
    /\ pc = "filter"
    /\ LET r == filter_new(summaries, cache, runs)
       IN  /\ new_items' = r.new_items
           /\ cache' = cache
           /\ all_updates' = all_updates \o r.new_items
           /\ calls' = Append(calls, CallRecord(summaries, cache, r))
           /\ trace' = Append(trace, Ev("filter", site, TRUE, Len(r.new_items)))
    /\ IF site < Len(config)
       THEN site' = site + 1 /\ pc' = "fetch"
       ELSE site' = site /\ pc' = "save"
    /\ UNCHANGED <<twin, hist, mode, runs, fetched, configFile, disk, exitStatus, config,
                   headlines, summaries, updates, attempt, log>>

\* lines 118-119, and the loop header of line 114
FilterNew ==
    /\ pc = "filter"
    /\ LET r == filter_new(summaries, cache, runs)
       IN  /\ new_items' = r.new_items
           /\ cache' = r.cache
           /\ all_updates' = all_updates \o r.new_items
           /\ calls' = Append(calls, CallRecord(summaries, cache, r))
           /\ trace' = Append(trace, Ev("filter", site, TRUE, Len(r.new_items)))
    /\ IF site < Len(config)
       THEN site' = site + 1 /\ pc' = "fetch"
       ELSE site' = site /\ pc' = "save"
    /\ UNCHANGED <<twin, hist, mode, runs, fetched, configFile, disk, exitStatus, config,
                   headlines, summaries, updates, attempt, log>>

\* SaveCache in an agent_loop that catches what save_cache raises and goes on
\* to send_whatsapp
SaveCache_swallows ==
    /\ pc = "save"
    /\ \E outcome \in {"saved", "open fails", "write fails"} :
         /\ disk' = CASE outcome = "saved" -> File(cache)
                      [] outcome = "open fails" -> disk
                      [] outcome = "write fails" -> Truncated
         /\ trace' = Append(trace, Ev("save", 0, outcome = "saved",
                                      IF outcome = "saved" THEN Len(cache) ELSE 0))
         /\ hist' = [hist EXCEPT !.save = IF outcome = "saved" THEN "saved"
                                          ELSE "failed",
                                 !.batch = all_updates]
    /\ pc' = "notify"
    /\ UNCHANGED <<twin, mode, runs, fetched, configFile, exitStatus, config, site,
                   headlines, summaries, new_items, cache, all_updates, updates,
                   attempt, log, calls>>

\* line 121: save_cache(cache), lines 43-45.  open(.., "w") truncates the file
\* before json.dump writes it.
SaveCache ==
    /\ pc = "save"
    /\ \E outcome \in {"saved", "open fails", "write fails"} :
         CASE outcome = "saved" ->
                /\ disk' = File(cache)
                /\ trace' = Append(trace, Ev("save", 0, TRUE, Len(cache)))
                /\ pc' = "notify"
           [] outcome = "open fails" ->
                /\ disk' = disk
                /\ trace' = Append(trace, Ev("save", 0, FALSE, 0))
                /\ pc' = "crashed"
           [] outcome = "write fails" ->
                /\ disk' = Truncated
                /\ trace' = Append(trace, Ev("save", 0, FALSE, 0))
                /\ pc' = "crashed"
    /\ hist' = [hist EXCEPT !.save = IF pc' = "notify" THEN "saved" ELSE "failed",
                            !.batch = all_updates]
    /\ UNCHANGED <<twin, mode, runs, fetched, configFile, exitStatus, config, site,
                   headlines, summaries, new_items, cache, all_updates, updates,
                   attempt, log, calls>>

(***************************************************************************)
(* send_whatsapp(updates): lines 86-106.                                   *)
(***************************************************************************)
\* SendWhatsapp without the `if not updates: return` of lines 88-89
SendWhatsapp_no_empty_check ==
    /\ pc = "notify"
    /\ updates' = all_updates
    /\ trace' = Append(trace, Ev("notify", 0, TRUE, Len(all_updates)))
    /\ attempt' = 0
    /\ pc' = "send"
    /\ UNCHANGED <<twin, hist, mode, runs, fetched, configFile, disk, exitStatus, config, site,
                   headlines, summaries, new_items, cache, all_updates, log, calls>>

\* line 122 and lines 86-92: the call, the empty check, body and client
SendWhatsapp ==
    /\ pc = "notify"
    /\ updates' = all_updates
    /\ trace' = Append(trace, Ev("notify", 0, TRUE, Len(all_updates)))
    /\ attempt' = 0
    /\ pc' = IF all_updates = <<>> THEN "returned" ELSE "send"
    /\ UNCHANGED <<twin, hist, mode, runs, fetched, configFile, disk, exitStatus, config, site,
                   headlines, summaries, new_items, cache, all_updates, log, calls>>

\* SendAttempt without the `break` of line 102
SendAttempt_no_break ==
    /\ pc = "send"
    /\ \E ok \in BOOLEAN :
         /\ trace' = Append(trace, Ev("attempt", 0, ok, attempt))
         /\ IF ok
            THEN /\ log' = Append(log, "WhatsApp message sent")
                 /\ IF attempt + 1 < MaxAttempts
                    THEN attempt' = attempt + 1 /\ pc' = "send"
                    ELSE attempt' = attempt /\ pc' = "returned"
            ELSE /\ log' = Append(log, "WhatsApp send failed")
                 /\ attempt' = attempt
                 /\ pc' = "sleep"
    /\ UNCHANGED <<twin, hist, mode, runs, fetched, configFile, disk, exitStatus, config, site,
                   headlines, summaries, new_items, cache, all_updates, updates,
                   calls>>

\* lines 94-105: one pass of the try block
SendAttempt ==
    /\ pc = "send"
    /\ \E ok \in BOOLEAN :
         /\ trace' = Append(trace, Ev("attempt", 0, ok, attempt))
         /\ IF ok
            THEN /\ log' = Append(log, "WhatsApp message sent")
                 /\ pc' = "returned"
            ELSE /\ log' = Append(log, "WhatsApp send failed")
                 /\ pc' = "sleep"
    /\ UNCHANGED <<twin, hist, mode, runs, fetched, configFile, disk, exitStatus, config, site,
                   headlines, summaries, new_items, cache, all_updates, updates,
                   attempt, calls>>

\* line 106: time.sleep(wait), then the loop header of line 94
Sleep ==
    /\ pc = "sleep"
    /\ trace' = Append(trace, Ev("wait", 0, TRUE, Pow2(attempt)))
    /\ IF attempt + 1 < MaxAttempts
       THEN attempt' = attempt + 1 /\ pc' = "send" /\ hist' = hist
       ELSE /\ attempt' = attempt
            /\ pc' = "returned"
            /\ hist' = [hist EXCEPT !.undelivered = updates]
    /\ UNCHANGED <<twin, mode, runs, fetched, configFile, disk, exitStatus, config, site,
                   headlines, summaries, new_items, cache, all_updates, updates,
                   log, calls>>

(***************************************************************************)
(* The end of a run: lines 140-146.                                        *)
(***************************************************************************)
\* exit(0) was called and the process is not gone yet
ShuttingDown == exitStatus # NoExit /\ pc \notin {"terminated", "exited"}

\* agent_loop is running on the scheduler's worker thread
InFlight ==
    /\ mode = "interval"
    /\ pc \in {"load_config", "load_cache", "fetch", "analyze", "filter", "save",
               "notify", "send", "sleep", "returned", "crashed"}

\* agent_loop returns: its frame is gone.  A process that is shutting down
\* ends here, with the job its worker thread was running.
Return ==
    /\ pc = "returned"
    /\ IF mode = "once"
       THEN pc' = "terminated" /\ exitStatus' = Exit(0)
       ELSE /\ pc' = IF ShuttingDown THEN "exited" ELSE "scheduled"
            /\ exitStatus' = exitStatus
    /\ config' = <<>>
    /\ site' = 0
    /\ headlines' = <<>>
    /\ summaries' = <<>>
    /\ new_items' = <<>>
    /\ cache' = <<>>
    /\ all_updates' = <<>>
    /\ updates' = <<>>
    /\ attempt' = 0
    /\ UNCHANGED <<twin, hist, mode, runs, fetched, configFile, disk, log, trace, calls>>

\* agent_loop raises: with --once the process dies of the exception; the
\* scheduler logs a failed job and keeps its timetable.
Raise ==
    /\ pc = "crashed"
    /\ IF mode = "once"
       THEN pc' = "terminated" /\ exitStatus' = Exit(1)
       ELSE /\ pc' = IF ShuttingDown THEN "exited" ELSE "scheduled"
            /\ exitStatus' = exitStatus
    /\ config' = <<>>
    /\ site' = 0
    /\ headlines' = <<>>
    /\ summaries' = <<>>
    /\ new_items' = <<>>
    /\ cache' = <<>>
    /\ all_updates' = <<>>
    /\ updates' = <<>>
    /\ attempt' = 0
    /\ UNCHANGED <<twin, hist, mode, runs, fetched, configFile, disk, log, trace, calls>>

\* graceful_shutdown on SIGINT or SIGTERM: lines 127-132.  The handler runs on
\* the main thread and exit(0) raises SystemExit there.  With --once the main
\* thread is the one inside agent_loop, which ends at once (no `except
\* Exception` catches SystemExit).  In interval mode the main thread is inside
\* scheduler.start() (line 146) and the job runs on a worker thread of the
\* scheduler's default executor: SystemExit ends the scheduling loop, and the
\* interpreter, on its way out, joins the worker, so a run in flight goes on
\* to its end before the process is gone.
graceful_shutdown ==
    /\ pc \notin {"terminated", "exited"}
    /\ exitStatus = NoExit
    /\ log' = Append(log, "Shutting down agent...")
    /\ exitStatus' = Exit(0)
    /\ IF InFlight
       THEN UNCHANGED <<pc, config, site, headlines, summaries, new_items, cache,
                        all_updates, updates, attempt>>
       ELSE /\ pc' = "exited"
            /\ config' = <<>>
            /\ site' = 0
            /\ headlines' = <<>>
            /\ summaries' = <<>>
            /\ new_items' = <<>>
            /\ cache' = <<>>
            /\ all_updates' = <<>>
            /\ updates' = <<>>
            /\ attempt' = 0
    /\ UNCHANGED <<twin, hist, mode, runs, fetched, configFile, disk, trace, calls>>

Next ==
    \/ Main
    \/ Tick
    \/ AgentLoopStart
    \/ LoadConfig
    \/ LoadCache
    \/ FetchSite
    \/ AnalyzeWithAI
    \/ FilterNew
    \/ SaveCache
    \/ SendWhatsapp
    \/ SendAttempt
    \/ Sleep
    \/ Return
    \/ Raise
    \/ graceful_shutdown

Spec == Init /\ [][Next]_vars

(***************************************************************************)
(* filter_new on its own: any candidate list against any cache, then the   *)
(* same list against the cache the call returned.                          *)
(***************************************************************************)
InitFilter ==
    /\ pc = "filter_new"
    /\ mode = "once"
    /\ runs = 0
    /\ fetched = 0
    /\ configFile = NoFile
    /\ disk = NoFile
    /\ exitStatus = NoExit
    /\ config = <<>>
    /\ site = 0
    /\ headlines = <<>>
    /\ summaries \in BoundedSeq(Summaries, MaxItems)
    /\ new_items = <<>>
    /\ cache \in BoundedSeq(InitEntries, MaxCache)
    /\ all_updates = <<>>
    /\ updates = <<>>
    /\ attempt = 0
    /\ log = <<>>
    /\ trace = <<>>
    /\ calls = <<>>
    /\ twin = NoTwin
    /\ hist = [NoHist EXCEPT !.disk0 = disk]

\* new_items, cache = filter_new(summaries, cache), at the next clock value
CallFilterNew ==
    /\ pc = "filter_new"
    /\ Len(calls) < MaxCalls
    /\ LET r == filter_new(summaries, cache, runs + 1)
       IN  /\ new_items' = r.new_items
           /\ cache' = r.cache
           /\ calls' = Append(calls, CallRecord(summaries, cache, r))
    /\ runs' = runs + 1
    /\ UNCHANGED <<twin, hist, pc, mode, fetched, configFile, disk, exitStatus, config, site,
                   headlines, summaries, all_updates, updates, attempt, log, trace>>

NextFilter == CallFilterNew

SpecFilter == InitFilter /\ [][NextFilter]_vars

(***************************************************************************)
(* Properties of filter_new.                                               *)
(***************************************************************************)
\* C1 (idempotent dedup): a call of filter_new with the list L of the call
\* before it, on the cache that call returned, returns no new item and
\* returns the cache as it was given.
C1_IdempotentDedup ==
    \A k \in 2..Len(calls) :
        (calls[k].items = calls[k - 1].items
            /\ calls[k].cache_in = calls[k - 1].cache_out)
        => /\ calls[k].new_items = <<>>
           /\ calls[k].cache_out = calls[k].cache_in

\* a second call was made after a first one that found new items
C1_Witness ==
    /\ Len(calls) >= 2
    /\ calls[2].items = calls[1].items
    /\ calls[2].cache_in = calls[1].cache_out
    /\ Len(calls[1].new_items) >= 2

\* The k-th candidate of a call is a duplicate: an equal string is a headline
\* of the cache passed in, or occurs earlier in the list.
IsDuplicate(call, k) ==
    \/ call.items[k] \in CacheHeadlines(call.cache_in)
    \/ \E j \in 1..(k - 1) : call.items[j] = call.items[k]

\* The elements of seq at the indices I, in increasing order of index.
AtIndices(seq, I) ==
    LET nth(m) == CHOOSE k \in I : Cardinality({j \in I : j <= k}) = m
    IN  [m \in 1..Cardinality(I) |-> seq[nth(m)]]

\* C2 (order preservation): new_items is a subsequence of L in L's order;
\* every candidate left out is a duplicate and every non-duplicate is kept.
C2_OrderPreservation ==
    \A c \in 1..Len(calls) :
        \E I \in SUBSET (1..Len(calls[c].items)) :
            /\ calls[c].new_items = AtIndices(calls[c].items, I)
            /\ \A k \in (1..Len(calls[c].items)) \ I : IsDuplicate(calls[c], k)
            /\ \A k \in 1..Len(calls[c].items) : ~IsDuplicate(calls[c], k) => k \in I

\* a call that kept a candidate, dropped one found in the cache and dropped
\* one that repeats an earlier candidate
C2_Witness ==
    \E c \in 1..Len(calls) :
        /\ calls[c].new_items # <<>>
        /\ \E k \in 1..Len(calls[c].items) :
               calls[c].items[k] \in CacheHeadlines(calls[c].cache_in)
        /\ \E k \in 1..Len(calls[c].items) :
               /\ calls[c].items[k] \notin CacheHeadlines(calls[c].cache_in)
               /\ \E j \in 1..(k - 1) : calls[c].items[j] = calls[c].items[k]

\* C3 (cache growth per call): the returned cache is the cache passed in
\* followed by one entry per new item, carrying the new items' strings in
\* order.
C3_CacheGrowth ==
    \A c \in 1..Len(calls) :
        LET call == calls[c]
            n == Len(call.cache_in)
        IN  /\ Len(call.cache_out) = n + Len(call.new_items)
            /\ SubSeq(call.cache_out, 1, n) = call.cache_in
            /\ \A m \in 1..Len(call.new_items) :
                   /\ n + m <= Len(call.cache_out)
                   /\ call.cache_out[n + m].headline = call.new_items[m]

\* a call on a non-empty cache that appended an entry and dropped a
\* candidate
C3_Witness ==
    \E c \in 1..Len(calls) :
        /\ calls[c].cache_in # <<>>
        /\ Len(calls[c].new_items) >= 1
        /\ Len(calls[c].new_items) < Len(calls[c].items)

(***************************************************************************)
(* Properties of send_whatsapp.  The trace holds the operations of the     *)
(* current run, so its attempt and wait events are those of the run's one  *)
(* send_whatsapp call.                                                     *)
(***************************************************************************)
IsOp(e, op) == e.op = op
Positions(op) == {k \in 1..Len(trace) : trace[k].op = op}
SendEvents == SelectSeq(trace, LAMBDA e : e.op \in {"attempt", "wait"})
FailedAttempts == {k \in Positions("attempt") : ~trace[k].ok}
SuccessfulAttempts == {k \in Positions("attempt") : trace[k].ok}
\* send_whatsapp was called with a non-empty list
NotifiedNonEmpty == \E k \in Positions("notify") : trace[k].n > 0
\* send_whatsapp was called with an empty list
NotifiedEmpty == \E k \in Positions("notify") : trace[k].n = 0
SendLogEntries ==
    {k \in 1..Len(log) : log[k] \in {"WhatsApp message sent", "WhatsApp send failed"}}

AllFailedEvents ==
    << Ev("attempt", 0, FALSE, 0), Ev("wait", 0, TRUE, 1),
       Ev("attempt", 0, FALSE, 1), Ev("wait", 0, TRUE, 2),
       Ev("attempt", 0, FALSE, 2), Ev("wait", 0, TRUE, 4) >>

\* C4 (retry bound): a send_whatsapp call with a non-empty batch in which no
\* attempt succeeded has, when it returns, made exactly 3 attempts and waited
\* 1, 2, 4 seconds in that order; it returns to agent_loop, it does not raise.
C4_RetryBound ==
    /\ (pc = "returned" /\ NotifiedNonEmpty /\ SuccessfulAttempts = {})
           => SendEvents = AllFailedEvents
    /\ (NotifiedNonEmpty /\ SuccessfulAttempts = {})
           => /\ pc # "crashed"
              /\ exitStatus # Exit(1)
              /\ Cardinality(FailedAttempts) <= MaxAttempts

\* a call that returned after three failed attempts
C4_Witness ==
    /\ pc = "returned"
    /\ NotifiedNonEmpty
    /\ Cardinality(FailedAttempts) = 3
    /\ SuccessfulAttempts = {}

\* C5 (waits only between attempts), as claimed: every wait follows a failed
\* attempt and, once the call has returned, is followed by a further attempt;
\* no wait follows the last attempt.
C5_WaitsOnlyBetweenAttempts ==
    \A k \in Positions("wait") :
        /\ k > 1
        /\ IsOp(trace[k - 1], "attempt")
        /\ ~trace[k - 1].ok
        /\ pc = "returned" => (k < Len(trace) /\ IsOp(trace[k + 1], "attempt"))

\* C6 (success stops the loop): a successful attempt is the last event of its
\* call: no attempt and no wait follows it, there is at most one, and the
\* number of attempts made is the index (1, 2 or 3) of that success.
C6_SuccessStopsLoop ==
    \A k \in SuccessfulAttempts :
        /\ k = Len(trace)
        /\ SuccessfulAttempts = {k}
        /\ Cardinality(Positions("attempt")) = trace[k].n + 1
        /\ trace[k].n + 1 \in 1..3
        /\ pc \notin {"send", "sleep"}

\* a call whose third attempt succeeded
C6_Witness ==
    /\ pc = "returned"
    /\ \E k \in SuccessfulAttempts : Cardinality(FailedAttempts) = 2

\* C7 (no-op on an empty batch): a send_whatsapp call with an empty list makes
\* no attempt and no wait and writes no log entry about sending.
C7_NoopOnEmptyBatch ==
    NotifiedEmpty =>
        /\ Positions("attempt") = {}
        /\ Positions("wait") = {}
        /\ SendLogEntries = {}
        /\ pc \notin {"send", "sleep"}

\* a call with an empty list that returned, in a run that had summaries to
\* filter
C7_Witness ==
    /\ pc = "returned"
    /\ NotifiedEmpty
    /\ \E c \in 1..Len(calls) : calls[c].items # <<>>

(***************************************************************************)
(* Properties of agent_loop.                                               *)
(***************************************************************************)
\* the run has loaded its configuration and its cache
Loaded == \E k \in Positions("load_cache") : trace[k].ok
\* the number of sites of the configuration the run loaded
NumSites == IF Positions("load_config") = {} THEN 0
            ELSE trace[CHOOSE k \in Positions("load_config") : TRUE].n
SavedAt == {k \in Positions("save") : trace[k].ok}

RECURSIVE NewItemsUpTo(_)
NewItemsUpTo(c) == IF c = 0 THEN <<>> ELSE NewItemsUpTo(c - 1) \o calls[c].new_items

\* C8, as claimed: every run that loaded its configuration and cache and has
\* ended, by returning or by raising, has called send_whatsapp exactly once.
C8_NotifyOnceInEveryLoadedRun ==
    (Loaded /\ pc \in {"returned", "crashed"})
        => Cardinality(Positions("notify")) = 1

\* C8, amended: send_whatsapp is called at most once in a run, and only
\* right after a save_cache that succeeded, itself after all sites were
\* filtered; its argument is the concatenation of the new items of all sites;
\* every send attempt comes after the save; and a run whose save_cache
\* succeeded calls send_whatsapp exactly once before it returns.
C8_NotifyOnceAfterPersist ==
    LET notified == Positions("notify")
        saved == SavedAt
    IN  /\ Cardinality(notified) <= 1
        /\ \A k \in notified :
               LET batch == NewItemsUpTo(Len(calls))
               IN  /\ k > 1
                   /\ k - 1 \in saved
                   /\ Cardinality({j \in Positions("filter") : j < k}) = NumSites
                   /\ Positions("fetch") \cup Positions("analyze")
                          \cup Positions("filter") \subseteq 1..(k - 1)
                   /\ Len(calls) = NumSites
                   /\ trace[k].n = Len(batch)
                   /\ pc \in {"send", "sleep", "returned"} => updates = batch
        /\ \A k \in Positions("attempt") : \E j \in saved : j < k
        /\ pc \in {"send", "sleep"} => disk = File(cache)
        /\ (saved # {} /\ pc = "returned") => Cardinality(notified) = 1
        /\ pc = "returned" => saved # {}

\* a run over two sites that both contributed, after a failed send attempt
C8_Witness ==
    /\ pc = "sleep"
    /\ NumSites = 2
    /\ \A c \in 1..Len(calls) : calls[c].new_items # <<>>
    /\ Len(updates) = 2

SiteEvents == SelectSeq(trace, LAMBDA e : e.op \in {"fetch", "analyze", "filter"})
Phase(k) == <<"fetch", "analyze", "filter">>[((k - 1) % 3) + 1]
\* an earlier step of the run failed: a fetch, or the summary of a headline
SiteFailures ==
    {k \in Positions("fetch") \cup Positions("analyze") : ~trace[k].ok}

\* C10 (a fetch or summarization failure never aborts the run): the sites are
\* processed in configuration order, each one fetched, summarized and
\* filtered before the next; once configuration and cache are loaded the run
\* reaches save_cache only with every site processed, and it raises only in
\* save_cache, whatever fetches and summaries failed before.
C10_FailuresDoNotAbort ==
    LET events == SiteEvents
        sites == NumSites
    IN  /\ \A k \in 1..Len(events) :
               /\ events[k].op = Phase(k)
               /\ events[k].site = ((k - 1) \div 3) + 1
               /\ events[k].site <= sites
        /\ (Loaded /\ pc \in {"save", "notify", "send", "sleep", "returned", "crashed"})
               => Len(events) = 3 * sites
        /\ (Loaded /\ pc = "crashed")
               => (IsOp(trace[Len(trace)], "save") /\ ~trace[Len(trace)].ok)
        /\ pc = "fetch" => Len(events) = 3 * (site - 1)
        /\ pc = "analyze" => Len(events) = 3 * (site - 1) + 1
        /\ pc = "filter" => Len(events) = 3 * (site - 1) + 2

\* the first site's fetch failed, a summary of the second site failed, and
\* the run went on to save_cache
C10_Witness ==
    /\ pc = "save"
    /\ NumSites = 2
    /\ \E k \in SiteFailures : IsOp(trace[k], "fetch") /\ trace[k].site = 1
    /\ \E k \in SiteFailures : IsOp(trace[k], "analyze") /\ trace[k].site = 2

(***************************************************************************)
(* Two runs of the loop of agent_loop (lines 114-119) side by side: the    *)
(* same configuration, the same loaded cache, the same pages and the same  *)
(* answers of the summarizing service; only site twin.a differs: its fetch *)
(* fails in the first run and succeeds in the twin.                        *)
(***************************************************************************)
InitIso ==
    /\ pc = "fetch"
    /\ mode = "once"
    /\ runs = 1
    /\ fetched = 0
    /\ \E n \in 2..MaxSites :
         /\ configFile = File(ConfigOf(n))
         /\ config = ConfigOf(n)
         /\ \E a \in 1..n, c \in BoundedSeq(InitEntries, MaxCache) :
              /\ disk = File(c)
              /\ cache = c
              /\ twin = [NoTwin EXCEPT !.a = a, !.cache = c]
    /\ exitStatus = NoExit
    /\ site = 1
    /\ headlines = <<>>
    /\ summaries = <<>>
    /\ new_items = <<>>
    /\ all_updates = <<>>
    /\ updates = <<>>
    /\ attempt = 0
    /\ log = <<>>
    /\ trace = <<>>
    /\ calls = <<>>
    /\ hist = [NoHist EXCEPT !.disk0 = disk]

\* lines 115-116 in both runs
IsoFetchSite ==
    /\ pc = "fetch"
    /\ \E ok \in BOOLEAN, page \in BoundedSeq({"h"}, MaxFetched - fetched) :
         /\ site = twin.a => ok
         /\ headlines' = fetch_site(ok /\ site # twin.a, page)
         /\ twin' = [twin EXCEPT !.headlines = fetch_site(ok, page)]
         /\ fetched' = fetched + Len(page)
    /\ pc' = "analyze"
    /\ UNCHANGED <<hist, mode, runs, configFile, disk, exitStatus, config, site, summaries,
                   new_items, cache, all_updates, updates, attempt, log, trace, calls>>

\* line 117 in both runs: the service answers a headline alike in both
IsoAnalyzeWithAI ==
    /\ pc = "analyze"
    /\ \E out \in [1..Len(twin.headlines) -> Outcomes] :
         /\ summaries' = analyze_with_ai(headlines, out).meaningful
         /\ twin' = [twin EXCEPT
                        !.summaries = analyze_with_ai(twin.headlines, out).meaningful]
    /\ pc' = "filter"
    /\ UNCHANGED <<hist, mode, runs, fetched, configFile, disk, exitStatus, config, site,
                   headlines, new_items, cache, all_updates, updates, attempt, log,
                   trace, calls>>

\* lines 118-119 and the loop header in both runs
IsoFilterNew ==
    /\ pc = "filter"
    /\ LET r == filter_new(summaries, cache, runs)
           t == filter_new(twin.summaries, twin.cache, runs)
       IN  /\ new_items' = r.new_items
           /\ cache' = r.cache
           /\ all_updates' = all_updates \o r.new_items
           /\ calls' = Append(calls, CallRecord(summaries, cache, r))
           /\ twin' = [twin EXCEPT
                          !.new_items = t.new_items,
                          !.cache = t.cache,
                          !.all_updates = twin.all_updates \o t.new_items,
                          !.calls = Append(twin.calls,
                                           CallRecord(twin.summaries, twin.cache, t))]
    /\ IF site < Len(config)
       THEN site' = site + 1 /\ pc' = "fetch"
       ELSE site' = site /\ pc' = "save"
    /\ UNCHANGED <<hist, mode, runs, fetched, configFile, disk, exitStatus, config,
                   headlines, summaries, updates, attempt, log, trace>>

NextIso ==
    \/ IsoFetchSite
    \/ IsoAnalyzeWithAI
    \/ IsoFilterNew

SpecIso == InitIso /\ [][NextIso]_vars

\* the sites other than A that both runs have filtered
OtherSites == {b \in 1..Len(calls) : b # twin.a}
\* what site b contributed to the batch: with A's fetch failing, and with it
\* succeeding
Contribution(b) == calls[b].new_items
TwinContribution(b) == twin.calls[b].new_items
\* the summaries A added to the cache in the run where its fetch succeeded
AddedByA == IF twin.a <= Len(twin.calls) THEN Range(twin.calls[twin.a].new_items)
            ELSE {}

\* C9 (isolation), as claimed: with B's headlines and summaries the same, B
\* contributes as many items when A's fetch fails as when it succeeds.
C9_SameCountWhetherAFailsOrNot ==
    \A b \in OtherSites :
        /\ calls[b].items = twin.calls[b].items
        /\ Len(Contribution(b)) = Len(TwinContribution(b))

\* C9, amended: B's summaries are the same in both runs; B contributes as
\* many items in both when B comes before A, or when none of the summaries A
\* adds to the cache equals a summary of B; in every case B contributes no
\* more when A's fetch succeeds than when it fails, and A contributes
\* nothing when its fetch fails.
C9_IsolationUpToDedup ==
    /\ \A b \in OtherSites :
           /\ calls[b].items = twin.calls[b].items
           /\ (b < twin.a \/ AddedByA \cap Range(calls[b].items) = {})
                  => Contribution(b) = TwinContribution(b)
           /\ Len(TwinContribution(b)) <= Len(Contribution(b))
           /\ Range(TwinContribution(b)) \subseteq Range(Contribution(b))
    /\ twin.a <= Len(calls) =>
           (calls[twin.a].items = <<>> /\ Contribution(twin.a) = <<>>)

\* A comes first and adds a summary that B does not produce; B, after it,
\* contributes an item in both runs
C9_Witness ==
    /\ pc = "save"
    /\ twin.a = 1
    /\ AddedByA # {}
    /\ \E b \in OtherSites :
           /\ AddedByA \cap Range(calls[b].items) = {}
           /\ Contribution(b) # <<>>
           /\ TwinContribution(b) = Contribution(b)

(***************************************************************************)
(* Faults of a run: configuration, persistence, termination.               *)
(***************************************************************************)
\* C11: when config.json cannot be loaded, every run stops at load_config
\* (line 110): it never gets to load_cache or beyond, performs no operation
\* (no read of the cache file, no fetch, no save, no send attempt), the cache
\* file stays as it was found, and with --once the process dies of the
\* exception.
C11_ConfigFailureAbortsRun ==
    configFile = NoFile =>
        /\ pc \in {"main", "scheduled", "agent_loop", "load_config", "crashed",
                   "terminated", "exited"}
        /\ trace = <<>>
        /\ calls = <<>>
        /\ fetched = 0
        /\ disk = hist.disk0
        /\ (pc = "terminated" /\ runs > 0) => exitStatus = Exit(1)

\* the second run of a process without config.json has failed like the first,
\* next to an existing cache file
C11_Witness ==
    /\ configFile = NoFile
    /\ pc = "crashed"
    /\ runs = 2
    /\ disk = File(<<>>)

\* C12: as long as the current run has not got to save_cache (line 121),
\* sent_cache.json is what it was when the run started; this covers the run
\* in progress and the run that has stopped, by an exception or by a signal,
\* before save_cache.
C12_CacheFileUntouchedBeforeSave ==
    Positions("save") = {} => disk = hist.disk0

\* a --once run found a new item, was ended by a signal before save_cache,
\* and the item is not in the file
C12_Witness ==
    /\ pc = "exited"
    /\ Positions("save") = {}
    /\ \E k \in 1..Len(calls) : calls[k].new_items # <<>>
    /\ disk = File(<<>>)
    /\ disk = hist.disk0

(***************************************************************************)
(* One pass of the loop body from analyze_with_ai on (lines 117-119), for  *)
(* any list of headlines and any loaded cache; the answers of the service  *)
(* are recorded in hist.answers.                                           *)
(***************************************************************************)
InitAnalyze ==
    /\ pc = "analyze"
    /\ mode = "once"
    /\ runs = 1
    /\ fetched = 0
    /\ configFile = File(ConfigOf(1))
    /\ config = ConfigOf(1)
    /\ \E c \in BoundedSeq(InitEntries, MaxCache) :
         /\ disk = File(c)
         /\ cache = c
    /\ exitStatus = NoExit
    /\ site = 1
    /\ headlines \in BoundedSeq({"h"}, MaxItems)
    /\ summaries = <<>>
    /\ new_items = <<>>
    /\ all_updates = <<>>
    /\ updates = <<>>
    /\ attempt = 0
    /\ log = <<>>
    /\ trace = <<>>
    /\ calls = <<>>
    /\ twin = NoTwin
    /\ hist = [NoHist EXCEPT !.disk0 = disk]

\* line 117
OneAnalyzeWithAI ==
    /\ pc = "analyze"
    /\ \E out \in [1..Len(headlines) -> Outcomes] :
         LET r == analyze_with_ai(headlines, out)
         IN  /\ summaries' = r.meaningful
             /\ log' = log \o r.errors
             /\ trace' = Append(trace, Ev("analyze", site, r.errors = <<>>,
                                          Len(r.meaningful)))
             /\ hist' = [hist EXCEPT !.answers = out]
    /\ pc' = "filter"
    /\ UNCHANGED <<twin, mode, runs, fetched, configFile, disk, exitStatus, config, site,
                   headlines, new_items, cache, all_updates, updates, attempt, calls>>

NextAnalyze ==
    \/ OneAnalyzeWithAI
    \/ FilterNew

SpecAnalyze == InitAnalyze /\ [][NextAnalyze]_vars

\* "ignore" in s, in any mix of upper and lower case
IGNORE == <<"I", "G", "N", "O", "R", "E">>
MentionsIgnore(s) ==
    \E k \in 1..(Len(s) - 5) :
        \A j \in 1..6 : s[k + j - 1] \in {Str_ignore[j], IGNORE[j]}

\* the headlines whose call succeeded and whose summary does not say ignore
Kept == {k \in 1..Len(hist.answers) :
            hist.answers[k].ok /\ ~MentionsIgnore(hist.answers[k].text)}
KeptSummaries == AtIndices([k \in 1..Len(hist.answers) |-> strip(hist.answers[k].text)],
                           Kept)

\* C13: once analyze_with_ai has returned, every headline has been put to the
\* service, and the list returned is the stripped summaries of the headlines
\* whose call succeeded and whose summary does not contain "ignore" in any
\* case, in the order of the headlines; once filter_new has run, the batch
\* and the cache's new entries hold summaries of these headlines only.
C13_SummarizerOutput ==
    pc \in {"filter", "save"} =>
        /\ Len(hist.answers) = Len(headlines)
        /\ summaries = KeptSummaries
        /\ pc = "save" =>
               /\ Range(all_updates) \subseteq Range(KeptSummaries)
               /\ CacheHeadlines(cache) \subseteq
                      CacheHeadlines(hist.disk0.content) \cup Range(KeptSummaries)
               /\ Len(cache) = Len(hist.disk0.content) + Len(all_updates)

\* the call fails for the first headline, the second is judged "Ignore", and
\* the third is summarized and gets to the batch and to the cache
C13_Witness ==
    /\ pc = "save"
    /\ Len(hist.answers) = 3
    /\ ~hist.answers[1].ok
    /\ hist.answers[2].ok /\ MentionsIgnore(hist.answers[2].text)
    /\ hist.answers[3] = Answer(<<" ", "A", " ">>)
    /\ summaries = <<Str_A>>
    /\ all_updates = <<Str_A>>
    /\ cache[Len(cache)].headline = Str_A

\* the run's load_cache or save_cache has raised
PersistenceFault ==
    \E k \in Positions("load_cache") \cup Positions("save") : ~trace[k].ok

\* C14: a run whose load_cache (line 111) or save_cache (line 121) raised
\* ends there: send_whatsapp is not called and no send attempt is made.
C14_NoSendAfterPersistenceFault ==
    PersistenceFault =>
        /\ Positions("notify") = {}
        /\ Positions("attempt") = {}
        /\ pc \in {"crashed", "scheduled", "terminated", "exited", "agent_loop"}

\* save_cache has raised in a run that had built a batch
C14_Witness ==
    /\ pc = "crashed"
    /\ all_updates # <<>>
    /\ \E k \in Positions("save") : ~trace[k].ok
    /\ Positions("attempt") = {}

(***************************************************************************)
(* The cache over a run and over the runs of a process.                    *)
(***************************************************************************)
\* the cache as load_cache gave it to the current run
LoadedCache == hist.disk0.content

\* no element of seq occurs twice
Distinct(seq) == \A i, j \in 1..Len(seq) : seq[i] = seq[j] => i = j

\* C15: in a run that loaded its cache, the batch holds no headline of the
\* loaded cache and no string twice, at every point of the site loop and when
\* it is handed to send_whatsapp; after save_cache, sent_cache.json holds the
\* loaded cache followed by one entry for each batch item, in batch order.
C15_RunLevelDedup ==
    (Loaded /\ pc \in {"fetch", "analyze", "filter", "save", "notify", "send",
                       "sleep", "returned"}) =>
        /\ Range(all_updates) \cap CacheHeadlines(LoadedCache) = {}
        /\ Distinct(all_updates)
        /\ pc \in {"send", "sleep", "returned"} => updates = all_updates
        /\ pc \in {"notify", "send", "sleep", "returned"} =>
               /\ disk.state = "json"
               /\ Len(disk.content) = Len(LoadedCache) + Len(all_updates)
               /\ SubSeq(disk.content, 1, Len(LoadedCache)) = LoadedCache
               /\ \A k \in 1..Len(all_updates) :
                      disk.content[Len(LoadedCache) + k].headline = all_updates[k]

\* two sites have produced the same summary and the batch holds it once
C15_Witness ==
    /\ pc = "returned"
    /\ Len(calls) = 2
    /\ calls[1].items = <<Str_A>>
    /\ calls[2].items = <<Str_A>>
    /\ updates = <<Str_A>>
    /\ Len(disk.content) = 1

\* a is a prefix of b
IsPrefix(a, b) == Len(a) <= Len(b) /\ SubSeq(b, 1, Len(a)) = a

\* C16, as claimed: no step of the process takes anything away from the
\* entries in sent_cache.json: the entries before the step are a prefix of
\* the entries after it (a missing file counting as no entries).
C16_PersistedCacheGrowsMonotonically ==
    [][IsPrefix(disk.content, disk'.content)]_vars

\* C17, as claimed: in interval mode, once the signal has been handled the
\* process is gone without the run in flight going on: from then on no
\* operation of a run is performed (nothing is fetched, summarized, saved or
\* sent), the cache file is not written, and no run is started.
C17_SignalEndsProcessAtOnce ==
    [][(mode = "interval" /\ exitStatus # NoExit) =>
           (trace' = trace /\ disk' = disk /\ runs' = runs)]_vars

\* the headline values of a cache, in order
HeadlinesOf(c) == [k \in 1..Len(c) |-> c[k].headline]

\* C18: when the headlines of the cache a run loaded are pairwise distinct,
\* so are, at every point of the run and after it, the headlines of the
\* in-memory cache and those of sent_cache.json; over the runs of a process
\* this carries from each run's file to the next run's loaded cache.
C18_CacheHeadlinesStayDistinct ==
    Distinct(HeadlinesOf(LoadedCache)) =>
        /\ Distinct(HeadlinesOf(cache))
        /\ Distinct(HeadlinesOf(disk.content))

\* the second run loaded a cache of one entry, was given the same summary
\* again, and saved a cache of one entry
C18_Witness ==
    /\ runs = 2
    /\ pc = "notify"
    /\ Len(LoadedCache) = 1
    /\ \E k \in 1..Len(calls) :
          /\ calls[k].items = <<LoadedCache[1].headline>>
          /\ calls[k].new_items = <<>>
    /\ Len(disk.content) = 1

(***************************************************************************)
(* Notification over the runs of a process.                                *)
(***************************************************************************)
\* the summaries the current run was given that are in the set S
Reproduced(S) == {k \in 1..Len(calls) : Range(calls[k].items) \cap S # {}}

\* C19, as claimed: the batch a run has when it reaches save_cache holds no
\* summary that was in the batch of an earlier run that reached save_cache.
C19_OncePerRunReachingSave ==
    hist.save # "none" => Range(hist.batch) \cap hist.earlier = {}

\* C19, amended: a summary that was in the batch of an earlier run whose
\* save_cache succeeded is in no later batch, neither while the batch is
\* built nor when the run reaches save_cache; a later run that is given such
\* a summary again drops it in filter_new.
C19_OncePerRunThatSaved ==
    /\ Range(all_updates) \cap hist.earlier_saved = {}
    /\ hist.save # "none" => Range(hist.batch) \cap hist.earlier_saved = {}
    /\ \A k \in Reproduced(hist.earlier_saved) :
           Range(calls[k].new_items) \cap hist.earlier_saved = {}

\* the second run was given a summary that the first run saved and had in
\* its batch, and has reached save_cache with an empty batch
C19_Witness ==
    /\ runs = 2
    /\ hist.earlier_saved # {}
    /\ Reproduced(hist.earlier_saved) # {}
    /\ hist.save = "saved"
    /\ hist.batch = <<>>

\* the summaries the current run has been given so far, over its sites
Produced == UNION {Range(calls[k].items) : k \in 1..Len(calls)}

\* C20: (a) once all the send attempts of a run have failed, every item of
\* its batch is a headline of sent_cache.json; (b) the next run finds these
\* items in the cache it loads, and as long as the summaries it is given are
\* among them its batch is empty: send_whatsapp gets no item and makes no
\* attempt.
C20_RecordedAsSentThoughUndelivered ==
    /\ hist.undelivered # <<>> =>
           /\ Cardinality(FailedAttempts) = MaxAttempts
           /\ SuccessfulAttempts = {}
           /\ Range(hist.undelivered) \subseteq CacheHeadlines(disk.content)
    /\ (hist.prev_undelivered # <<>> /\ Loaded) =>
           /\ Range(hist.prev_undelivered) \subseteq CacheHeadlines(LoadedCache)
           /\ Produced \subseteq Range(hist.prev_undelivered) =>
                  /\ all_updates = <<>>
                  /\ ~NotifiedNonEmpty
                  /\ Positions("attempt") = {}

\* all the attempts of the first run failed; the second run was given
\* exactly the summaries of that batch and has called send_whatsapp with
\* nothing
C20_Witness ==
    /\ runs = 2
    /\ hist.prev_undelivered # <<>>
    /\ Loaded
    /\ Produced = Range(hist.prev_undelivered)
    /\ pc = "returned"
    /\ NotifiedEmpty
    /\ Positions("attempt") = {}

====
